---------------------------- MODULE Spec2Model ----------------------------
(***************************************************************************)
(* Cross-section geometry of pipedream_solver/ngeometry.py.                *)
(*                                                                         *)
(* Every function of the source is a pure float64 function.  A float64 is  *)
(* modelled as a binary fixed-point number: the integer v stands for the   *)
(* real v / ONE.  Sums and differences are exact.  Products, quotients and *)
(* library functions round to the nearest grid value, and, as in binary64  *)
(* (where nothing in the range of these formulas underflows), a result     *)
(* that is not zero never rounds to zero: it keeps its sign.               *)
(***************************************************************************)
EXTENDS Integers, Sequences, FiniteSets, TLC

\* float64 1.0
ONE == 1024

Lit(n) == n * ONE

Abs(v) == IF v < 0 THEN 0 - v ELSE v

Sgn(v) == IF v < 0 THEN 0 - 1 ELSE IF v > 0 THEN 1 ELSE 0

\* n / d (d > 0) rounded to the nearest integer
NearDiv(n, d) == Sgn(n) * ((Abs(n) + (d \div 2)) \div d)

\* n / d (d > 0) rounded to the nearest integer, a nonzero quotient kept nonzero
RoundDiv(n, d) ==
    LET q == NearDiv(n, d)
    IN  IF q = 0 THEN Sgn(n) ELSE q

\* float64 a * b
Mul(a, b) == RoundDiv(a * b, ONE)

\* float64 a / b, b # 0
Div(a, b) == RoundDiv(Sgn(b) * a * ONE, Abs(b))

RECURSIVE ISqrt(_)
ISqrt(n) ==
    IF n < 2 THEN n
    ELSE LET s == 2 * ISqrt(n \div 4)
         IN  IF (s + 1) * (s + 1) <= n THEN s + 1 ELSE s

\* np.sqrt(v), v >= 0
Sqrt(v) ==
    LET n == v * ONE
        s == ISqrt(n)
        r == IF n - s * s > s THEN s + 1 ELSE s
    IN  IF r = 0 THEN Sgn(v) ELSE r

(***************************************************************************)
(* The library kernels work, as libm's do, in more precision than their    *)
(* result has: HP grid values per grid value of the result.                *)
(***************************************************************************)
HP == 16

HONE == HP * ONE

HMul(a, b) == NearDiv(a * b, HONE)

\* pi / 2 and pi in kernel precision
HalfPiHP == 25736

PiHP == 51472

\* np.pi: the grid value below pi whose half is a grid value below pi / 2,
\* as the binary64 pi lies below pi and halves exactly
NpPi == 3216

\* sin of a kernel-precision x in [0, pi/2], by its Taylor series
SinKPos(x) ==
    LET x2 == HMul(x, x)
        t3 == NearDiv(HMul(x, x2), 6)
        t5 == NearDiv(HMul(t3, x2), 20)
        t7 == NearDiv(HMul(t5, x2), 42)
        t9 == NearDiv(HMul(t7, x2), 72)
    IN  IF x = 0 THEN 0 ELSE x - t3 + t5 - t7 + t9

\* sin of a kernel-precision x in [-pi/2, pi/2]: an odd function
SinK(x) == Sgn(x) * SinKPos(Abs(x))

\* kernel-precision value to a float64, a nonzero value kept nonzero
FromHP(x) == RoundDiv(x, HP)

\* np.cos(t), t in [-pi, pi]
Cos(t) == FromHP(SinK(HalfPiHP - HP * Abs(t)))

\* np.sin(t), t in [-pi, pi]
Sin(t) ==
    LET a == HP * Abs(t)
        s == IF a <= HalfPiHP THEN SinK(a) ELSE SinK(PiHP - a)
    IN  Sgn(t) * FromHP(s)

\* kernel-precision cos of the float64 t in [0, pi]
CosK(t) == SinK(HalfPiHP - HP * t)

\* the least t in lo..hi with CosK(t) <= c, by bisection (CosK decreases)
RECURSIVE ArcCosSearch(_, _, _)
ArcCosSearch(c, lo, hi) ==
    IF lo >= hi THEN hi
    ELSE LET mid == (lo + hi) \div 2
         IN  IF CosK(mid) <= c THEN ArcCosSearch(c, lo, mid)
             ELSE ArcCosSearch(c, mid + 1, hi)

\* np.arccos(c), c in [-1, 1]: exactly 0 at 1 and np.pi at -1
ArcCos(c) ==
    IF c >= ONE THEN 0
    ELSE IF c <= 0 - ONE THEN NpPi
    ELSE LET t == ArcCosSearch(HP * c, 1, NpPi)
         IN  IF Abs(CosK(t - 1) - HP * c) <= Abs(CosK(t) - HP * c) THEN t - 1 ELSE t

\* np.arcsin(s), s in [-1, 1]: exactly -np.pi/2 at -1 and np.pi/2 at 1
ArcSin(s) == (NpPi \div 2) - ArcCos(s)

\* ln 2 in kernel precision
Ln2HP == 11357

\* kernel-precision ln of a kernel-precision v in [1, 2): 2 atanh((v-1)/(v+1))
LogK(v) ==
    LET z  == NearDiv((v - HONE) * HONE, v + HONE)
        z2 == HMul(z, z)
        z3 == HMul(z, z2)
        z5 == HMul(z3, z2)
        z7 == HMul(z5, z2)
    IN  IF v = HONE THEN 0
        ELSE 2 * (z + NearDiv(z3, 3) + NearDiv(z5, 5) + NearDiv(z7, 7))

\* kernel-precision ln of a kernel-precision v >= 1, halving v into [1, 2)
RECURSIVE LogHP(_)
LogHP(v) ==
    IF v < 2 * HONE THEN LogK(v)
    ELSE Ln2HP + LogHP(v \div 2)

\* np.log(v), v >= 1
Log(v) == FromHP(LogHP(HP * v))

(***************************************************************************)
(* ngeometry.py                                                            *)
(***************************************************************************)

\* geom_code with the code of 'wide' given to 'force_main' as well
geom_code_duplicate ==
    [circular |-> 1, rect_closed |-> 2, rect_open |-> 3, triangular |-> 4,
     trapezoidal |-> 5, parabolic |-> 6, elliptical |-> 7, wide |-> 8,
     force_main |-> 8]

geom_code ==
    [circular |-> 1, rect_closed |-> 2, rect_open |-> 3, triangular |-> 4,
     trapezoidal |-> 5, parabolic |-> 6, elliptical |-> 7, wide |-> 8,
     force_main |-> 9]

\* np.finfo(float).eps: the distance from 1.0 to the next float64
eps == 1

\* MeanDepth without the parentheses: h_Ik + h_Ip1k / 2
MeanDepth_no_parens(h_Ik, h_Ip1k) == h_Ik + Div(h_Ip1k, Lit(2))

\* y = (h_Ik + h_Ip1k) / 2
MeanDepth(h_Ik, h_Ip1k) == Div(h_Ik + h_Ip1k, Lit(2))

\* --------------------------------------------------------------- Circular

Circular_A_ik(h_Ik, h_Ip1k, g1) ==
    LET d     == g1
        y0    == MeanDepth(h_Ik, h_Ip1k)
        y1    == IF y0 < 0 THEN 0 ELSE y0
        y     == IF y1 > d THEN d ELSE y1
        r     == Div(d, Lit(2))
        phi0  == Div(y, r)
        phi1  == IF phi0 < 0 THEN 0 ELSE phi0
        phi   == IF phi1 > Lit(2) THEN Lit(2) ELSE phi1
        theta == ArcCos(ONE - phi)
    IN  Mul(Mul(r, r), theta - Mul(Cos(theta), Sin(theta)))

Circular_Pe_ik(h_Ik, h_Ip1k, g1) ==
    LET d     == g1
        y0    == MeanDepth(h_Ik, h_Ip1k)
        y1    == IF y0 < 0 THEN 0 ELSE y0
        y     == IF y1 > d THEN d ELSE y1
        r     == Div(d, Lit(2))
        phi0  == Div(y, r)
        phi1  == IF phi0 < 0 THEN 0 ELSE phi0
        phi   == IF phi1 > Lit(2) THEN Lit(2) ELSE phi1
        theta == ArcCos(ONE - phi)
    IN  Mul(2 * r, theta)

\* Circular_R_ik dividing whenever the perimeter is not zero
Circular_R_ik_nonzero(A_ik, Pe_ik) ==
    LET cond == Pe_ik # 0
    IN  IF cond THEN Div(A_ik, Pe_ik) ELSE 0

Circular_R_ik(A_ik, Pe_ik) ==
    LET cond == Pe_ik > 0
    IN  IF cond THEN Div(A_ik, Pe_ik) ELSE 0

Circular_B_ik(h_Ik, h_Ip1k, g1, g2) ==
    LET d     == g1
        pslot == g2
        y0    == MeanDepth(h_Ik, h_Ip1k)
        y     == IF y0 < 0 THEN 0 ELSE y0
        r     == Div(d, Lit(2))
        phi0  == Div(y, r)
        phi1  == IF phi0 < 0 THEN 0 ELSE phi0
        phi   == IF phi1 > Lit(2) THEN Lit(2) ELSE phi1
        theta == ArcCos(ONE - phi)
        cond  == y < d
    IN  IF cond THEN Mul(2 * r, Sin(theta)) ELSE Mul(pslot, d)

\* ------------------------------------------------------------ Rect_Closed

Rect_Closed_A_ik(h_Ik, h_Ip1k, g1, g2) ==
    LET y_max == g1
        b     == g2
        y0    == MeanDepth(h_Ik, h_Ip1k)
        y1    == IF y0 < 0 THEN 0 ELSE y0
        y     == IF y1 > y_max THEN y_max ELSE y1
    IN  Mul(y, b)

Rect_Closed_Pe_ik(h_Ik, h_Ip1k, g1, g2) ==
    LET y_max == g1
        b     == g2
        y0    == MeanDepth(h_Ik, h_Ip1k)
        y1    == IF y0 < 0 THEN 0 ELSE y0
        y     == IF y1 > y_max THEN y_max ELSE y1
    IN  b + 2 * y

Rect_Closed_R_ik(A_ik, Pe_ik) ==
    LET cond == Pe_ik > 0
    IN  IF cond THEN Div(A_ik, Pe_ik) ELSE 0

\* Rect_Closed_B_ik switching to the slot only above y_max
Rect_Closed_B_ik_le(h_Ik, h_Ip1k, g1, g2, g3) ==
    LET y_max == g1
        b     == g2
        pslot == g3
        y0    == MeanDepth(h_Ik, h_Ip1k)
        y     == IF y0 < 0 THEN 0 ELSE y0
        cond  == y <= y_max
    IN  IF cond THEN b ELSE Mul(pslot, b)

Rect_Closed_B_ik(h_Ik, h_Ip1k, g1, g2, g3) ==
    LET y_max == g1
        b     == g2
        pslot == g3
        y0    == MeanDepth(h_Ik, h_Ip1k)
        y     == IF y0 < 0 THEN 0 ELSE y0
        cond  == y < y_max
    IN  IF cond THEN b ELSE Mul(pslot, b)

\* -------------------------------------------------------------- Rect_Open

Rect_Open_A_ik(h_Ik, h_Ip1k, g1, g2) ==
    LET y_max == g1
        b     == g2
        y0    == MeanDepth(h_Ik, h_Ip1k)
        y1    == IF y0 < 0 THEN 0 ELSE y0
        y     == IF y1 > y_max THEN y_max ELSE y1
    IN  Mul(y, b)

Rect_Open_Pe_ik(h_Ik, h_Ip1k, g1, g2) ==
    LET y_max == g1
        b     == g2
        y0    == MeanDepth(h_Ik, h_Ip1k)
        y1    == IF y0 < 0 THEN 0 ELSE y0
        y     == IF y1 > y_max THEN y_max ELSE y1
    IN  b + 2 * y

Rect_Open_R_ik(A_ik, Pe_ik) ==
    LET cond == Pe_ik > 0
    IN  IF cond THEN Div(A_ik, Pe_ik) ELSE 0

Rect_Open_B_ik(h_Ik, h_Ip1k, g1, g2) ==
    LET y_max == g1
        b     == g2
    IN  b

\* ------------------------------------------------------------- Triangular

Triangular_A_ik(h_Ik, h_Ip1k, g1, g2) ==
    LET y_max == g1
        m     == g2
        y0    == MeanDepth(h_Ik, h_Ip1k)
        y1    == IF y0 < 0 THEN 0 ELSE y0
        y     == IF y1 > y_max THEN y_max ELSE y1
    IN  Mul(m, Mul(y, y))

Triangular_Pe_ik(h_Ik, h_Ip1k, g1, g2) ==
    LET y_max == g1
        m     == g2
        y0    == MeanDepth(h_Ik, h_Ip1k)
        y1    == IF y0 < 0 THEN 0 ELSE y0
        y     == IF y1 > y_max THEN y_max ELSE y1
    IN  Mul(2 * y, Sqrt(ONE + Mul(m, m)))

Triangular_R_ik(A_ik, Pe_ik) ==
    LET cond == Pe_ik > 0
    IN  IF cond THEN Div(A_ik, Pe_ik) ELSE 0

Triangular_B_ik(h_Ik, h_Ip1k, g1, g2) ==
    LET y_max == g1
        m     == g2
        y0    == MeanDepth(h_Ik, h_Ip1k)
        y     == IF y0 < 0 THEN 0 ELSE y0
        cond  == y < y_max
    IN  IF cond THEN Mul(2 * m, y) ELSE Mul(2 * m, y_max)

\* ------------------------------------------------------------ Trapezoidal

Trapezoidal_A_ik(h_Ik, h_Ip1k, g1, g2, g3) ==
    LET y_max == g1
        b     == g2
        m     == g3
        y0    == MeanDepth(h_Ik, h_Ip1k)
        y1    == IF y0 < 0 THEN 0 ELSE y0
        y     == IF y1 > y_max THEN y_max ELSE y1
    IN  Mul(y, b + Mul(m, y))

Trapezoidal_Pe_ik(h_Ik, h_Ip1k, g1, g2, g3) ==
    LET y_max == g1
        b     == g2
        m     == g3
        y0    == MeanDepth(h_Ik, h_Ip1k)
        y1    == IF y0 < 0 THEN 0 ELSE y0
        y     == IF y1 > y_max THEN y_max ELSE y1
    IN  b + Mul(2 * y, Sqrt(ONE + Mul(m, m)))

Trapezoidal_R_ik(A_ik, Pe_ik) ==
    LET cond == Pe_ik > 0
    IN  IF cond THEN Div(A_ik, Pe_ik) ELSE 0

Trapezoidal_B_ik(h_Ik, h_Ip1k, g1, g2, g3) ==
    LET y_max == g1
        b     == g2
        m     == g3
        y0    == MeanDepth(h_Ik, h_Ip1k)
        y     == IF y0 < 0 THEN 0 ELSE y0
        cond  == y < y_max
    IN  IF cond THEN b + Mul(2 * m, y) ELSE b + Mul(2 * m, y_max)

\* -------------------------------------------------------------- Parabolic

Parabolic_A_ik(h_Ik, h_Ip1k, g1, g2) ==
    LET y_max == g1
        b     == g2
        y0    == MeanDepth(h_Ik, h_Ip1k)
        y1    == IF y0 < 0 THEN 0 ELSE y0
        y     == IF y1 > y_max THEN y_max ELSE y1
    IN  Div(Mul(2 * b, y), Lit(3))

\* Parabolic_Pe_y substituting epsilon for negative means only
Parabolic_Pe_y_lt(h_Ik, h_Ip1k, g1) ==
    LET y_max == g1
        y0    == MeanDepth(h_Ik, h_Ip1k)
        y1    == IF y0 < 0 THEN eps ELSE y0
    IN  IF y1 > y_max THEN y_max ELSE y1

\* the depth Parabolic_Pe_ik forms x from
Parabolic_Pe_y(h_Ik, h_Ip1k, g1) ==
    LET y_max == g1
        y0    == MeanDepth(h_Ik, h_Ip1k)
        y1    == IF y0 <= 0 THEN eps ELSE y0
    IN  IF y1 > y_max THEN y_max ELSE y1

\* x = 4 * y / b and 1 / x divide by zero: numba raises ZeroDivisionError
Parabolic_Pe_raises(h_Ik, h_Ip1k, g1, g2) ==
    LET b == g2
        y == Parabolic_Pe_y(h_Ik, h_Ip1k, g1)
    IN  IF b = 0 THEN TRUE ELSE Div(4 * y, b) = 0

Parabolic_Pe_ik(h_Ik, h_Ip1k, g1, g2) ==
    LET b  == g2
        y  == Parabolic_Pe_y(h_Ik, h_Ip1k, g1)
        x  == Div(4 * y, b)
        sq == Sqrt(ONE + Mul(x, x))
    IN  Mul(Div(b, Lit(2)), sq + Mul(Div(ONE, x), Log(x + sq)))

Parabolic_R_ik(A_ik, Pe_ik) ==
    LET cond == Pe_ik > 0
    IN  IF cond THEN Div(A_ik, Pe_ik) ELSE 0

Parabolic_B_ik(h_Ik, h_Ip1k, g1, g2) ==
    LET y_max == g1
        b     == g2
        y0    == MeanDepth(h_Ik, h_Ip1k)
        y     == IF y0 < 0 THEN 0 ELSE y0
    IN  Mul(b, Sqrt(Div(y, y_max)))

\* ------------------------------------------------------------- Elliptical

Elliptical_A_ik(h_Ik, h_Ip1k, g1, g2) ==
    LET y_max == g1
        b     == Div(g1, Lit(2))
        a     == Div(g2, Lit(2))
        y0    == MeanDepth(h_Ik, h_Ip1k)
        y1    == IF y0 < 0 THEN 0 ELSE y0
        y     == IF y1 > y_max THEN y_max ELSE y1
        theta == ArcSin(Div(y - b, b))
        A_a   == Mul(Mul(a, b), Div(NpPi, Lit(2)) + theta)
        A_b   == Mul(Mul(Mul(a, b), Cos(theta)), Sin(theta))
    IN  A_a + A_b

Elliptical_R_ik(A_ik, Pe_ik) ==
    LET cond == Pe_ik > 0
    IN  IF cond THEN Div(A_ik, Pe_ik) ELSE 0

Elliptical_B_ik(h_Ik, h_Ip1k, g1, g2) ==
    LET y_max == g1
        b     == Div(g1, Lit(2))
        a     == Div(g2, Lit(2))
        y0    == MeanDepth(h_Ik, h_Ip1k)
        y1    == IF y0 < 0 THEN 0 ELSE y0
        y     == IF y1 > y_max THEN y_max ELSE y1
        theta == ArcSin(Div(y - b, b))
        c     == Cos(theta)
        s     == Sin(theta)
    IN  Mul(2 * c, Sqrt(Mul(Mul(a, a), Mul(c, c)) + Mul(Mul(b, b), Mul(s, s))))

\* ------------------------------------------------------------------- Wide

Wide_A_ik(h_Ik, h_Ip1k, g1, g2) ==
    LET y_max == g1
        b     == g2
        y0    == MeanDepth(h_Ik, h_Ip1k)
        y1    == IF y0 < 0 THEN 0 ELSE y0
        y     == IF y1 > y_max THEN y_max ELSE y1
    IN  Mul(y, b)

Wide_Pe_ik(h_Ik, h_Ip1k, g1, g2) ==
    LET b == g2
    IN  b

Wide_R_ik(A_ik, Pe_ik) ==
    LET cond == Pe_ik > 0
    IN  IF cond THEN Div(A_ik, Pe_ik) ELSE 0

Wide_B_ik(h_Ik, h_Ip1k, g1, g2) ==
    LET y_max == g1
        b     == g2
    IN  b

\* ------------------------------------------------------------- Force_Main

Force_Main_A_ik(h_Ik, h_Ip1k, g1, g2) ==
    LET d == g1
        r == Div(d, Lit(2))
    IN  Mul(NpPi, Mul(r, r))

Force_Main_Pe_ik(h_Ik, h_Ip1k, g1, g2) ==
    LET d == g1
    IN  Mul(NpPi, d)

Force_Main_R_ik(A_ik, Pe_ik) ==
    LET cond == Pe_ik > 0
    IN  IF cond THEN Div(A_ik, Pe_ik) ELSE 0

Force_Main_B_ik(h_Ik, h_Ip1k, g1, g2) ==
    LET d     == g1
        pslot == g2
    IN  Mul(pslot, d)

\* ------------------------------------------------------------- Floodplain

\* Floodplain_A_ik with the upper sub-area on the lower channel's width
Floodplain_A_ik_lower_width(h_Ik, h_Ip1k, g1, g2, g3, g4, g5, g6) ==
    LET y_max   == g1
        y_mid   == g2
        b_lower == g3
        b_upper == g4
        m_lower == g5
        m_upper == g6
        y0      == MeanDepth(h_Ik, h_Ip1k)
        y1      == IF y0 < 0 THEN 0 ELSE y0
        y       == IF y1 > y_max THEN y_max ELSE y1
        y_lower == IF y < y_mid THEN y ELSE y_mid
        y_upper == IF y < y_mid THEN 0 ELSE y - y_mid
        A_lower == Mul(y_lower, b_lower + Mul(m_lower, y_lower))
        A_upper == Mul(y_upper, b_lower + Mul(m_upper, y_upper))
    IN  A_lower + A_upper

\* Floodplain_A_ik with the upper depth taken as y_mid - y
Floodplain_A_ik_flipped(h_Ik, h_Ip1k, g1, g2, g3, g4, g5, g6) ==
    LET y_max   == g1
        y_mid   == g2
        b_lower == g3
        b_upper == g4
        m_lower == g5
        m_upper == g6
        y0      == MeanDepth(h_Ik, h_Ip1k)
        y1      == IF y0 < 0 THEN 0 ELSE y0
        y       == IF y1 > y_max THEN y_max ELSE y1
        y_lower == IF y < y_mid THEN y ELSE y_mid
        y_upper == IF y < y_mid THEN 0 ELSE y_mid - y
        A_lower == Mul(y_lower, b_lower + Mul(m_lower, y_lower))
        A_upper == Mul(y_upper, b_upper + Mul(m_upper, y_upper))
    IN  A_lower + A_upper

Floodplain_A_ik(h_Ik, h_Ip1k, g1, g2, g3, g4, g5, g6) ==
    LET y_max   == g1
        y_mid   == g2
        b_lower == g3
        b_upper == g4
        m_lower == g5
        m_upper == g6
        y0      == MeanDepth(h_Ik, h_Ip1k)
        y1      == IF y0 < 0 THEN 0 ELSE y0
        y       == IF y1 > y_max THEN y_max ELSE y1
        y_lower == IF y < y_mid THEN y ELSE y_mid
        y_upper == IF y < y_mid THEN 0 ELSE y - y_mid
        A_lower == Mul(y_lower, b_lower + Mul(m_lower, y_lower))
        A_upper == Mul(y_upper, b_upper + Mul(m_upper, y_upper))
    IN  A_lower + A_upper

\* Floodplain_Pe_ik taking the lower branch at y = y_mid as well
Floodplain_Pe_ik_le(h_Ik, h_Ip1k, g1, g2, g3, g4, g5, g6) ==
    LET y_max    == g1
        y_mid    == g2
        b_lower  == g3
        b_upper  == g4
        m_lower  == g5
        m_upper  == g6
        y0       == MeanDepth(h_Ik, h_Ip1k)
        b_mid    == b_lower + Mul(2 * m_lower, y_mid)
        y1       == IF y0 < 0 THEN 0 ELSE y0
        y        == IF y1 > y_max THEN y_max ELSE y1
        y_lower  == IF y <= y_mid THEN y ELSE y_mid
        y_upper  == IF y <= y_mid THEN 0 ELSE y - y_mid
        k        == IF y <= y_mid THEN 0 ELSE ONE
        Pe_lower == b_lower + Mul(2 * y_lower, Sqrt(ONE + Mul(m_lower, m_lower)))
        Pe_upper == Mul(k, b_upper - b_mid)
                    + Mul(2 * y_upper, Sqrt(ONE + Mul(m_upper, m_upper)))
    IN  Pe_lower + Pe_upper

\* Floodplain_Pe_ik leaving the lower channel's sides out above y_mid
Floodplain_Pe_ik_no_lower(h_Ik, h_Ip1k, g1, g2, g3, g4, g5, g6) ==
    LET y_max    == g1
        y_mid    == g2
        b_lower  == g3
        b_upper  == g4
        m_lower  == g5
        m_upper  == g6
        y0       == MeanDepth(h_Ik, h_Ip1k)
        b_mid    == b_lower + Mul(2 * m_lower, y_mid)
        y1       == IF y0 < 0 THEN 0 ELSE y0
        y        == IF y1 > y_max THEN y_max ELSE y1
        y_lower  == IF y < y_mid THEN y ELSE 0
        y_upper  == IF y < y_mid THEN 0 ELSE y - y_mid
        k        == IF y < y_mid THEN 0 ELSE ONE
        Pe_lower == b_lower + Mul(2 * y_lower, Sqrt(ONE + Mul(m_lower, m_lower)))
        Pe_upper == Mul(k, b_upper - b_mid)
                    + Mul(2 * y_upper, Sqrt(ONE + Mul(m_upper, m_upper)))
    IN  Pe_lower + Pe_upper

\* Floodplain_Pe_ik counting the step b_upper - b_mid below y_mid as well
Floodplain_Pe_ik_step_always(h_Ik, h_Ip1k, g1, g2, g3, g4, g5, g6) ==
    LET y_max    == g1
        y_mid    == g2
        b_lower  == g3
        b_upper  == g4
        m_lower  == g5
        m_upper  == g6
        y0       == MeanDepth(h_Ik, h_Ip1k)
        b_mid    == b_lower + Mul(2 * m_lower, y_mid)
        y1       == IF y0 < 0 THEN 0 ELSE y0
        y        == IF y1 > y_max THEN y_max ELSE y1
        y_lower  == IF y < y_mid THEN y ELSE y_mid
        y_upper  == IF y < y_mid THEN 0 ELSE y - y_mid
        k        == ONE
        Pe_lower == b_lower + Mul(2 * y_lower, Sqrt(ONE + Mul(m_lower, m_lower)))
        Pe_upper == Mul(k, b_upper - b_mid)
                    + Mul(2 * y_upper, Sqrt(ONE + Mul(m_upper, m_upper)))
    IN  Pe_lower + Pe_upper

Floodplain_Pe_ik(h_Ik, h_Ip1k, g1, g2, g3, g4, g5, g6) ==
    LET y_max    == g1
        y_mid    == g2
        b_lower  == g3
        b_upper  == g4
        m_lower  == g5
        m_upper  == g6
        y0       == MeanDepth(h_Ik, h_Ip1k)
        b_mid    == b_lower + Mul(2 * m_lower, y_mid)
        y1       == IF y0 < 0 THEN 0 ELSE y0
        y        == IF y1 > y_max THEN y_max ELSE y1
        y_lower  == IF y < y_mid THEN y ELSE y_mid
        y_upper  == IF y < y_mid THEN 0 ELSE y - y_mid
        k        == IF y < y_mid THEN 0 ELSE ONE
        Pe_lower == b_lower + Mul(2 * y_lower, Sqrt(ONE + Mul(m_lower, m_lower)))
        Pe_upper == Mul(k, b_upper - b_mid)
                    + Mul(2 * y_upper, Sqrt(ONE + Mul(m_upper, m_upper)))
    IN  Pe_lower + Pe_upper

Floodplain_R_ik(A_ik, Pe_ik) ==
    LET cond == Pe_ik > 0
    IN  IF cond THEN Div(A_ik, Pe_ik) ELSE 0

\* Floodplain_B_ik taking the lower branch at y = y_mid as well
Floodplain_B_ik_le(h_Ik, h_Ip1k, g1, g2, g3, g4, g5, g6) ==
    LET y_max   == g1
        y_mid   == g2
        b_lower == g3
        b_upper == g4
        m_lower == g5
        m_upper == g6
        y0      == MeanDepth(h_Ik, h_Ip1k)
        y1      == IF y0 < 0 THEN 0 ELSE y0
        y       == IF y1 > y_max THEN y_max ELSE y1
        y_lower == y
        y_upper == y - y_mid
    IN  IF y <= y_mid THEN b_lower + Mul(2 * m_lower, y_lower)
        ELSE b_upper + Mul(2 * m_upper, y_upper)

Floodplain_B_ik(h_Ik, h_Ip1k, g1, g2, g3, g4, g5, g6) ==
    LET y_max   == g1
        y_mid   == g2
        b_lower == g3
        b_upper == g4
        m_lower == g5
        m_upper == g6
        y0      == MeanDepth(h_Ik, h_Ip1k)
        y1      == IF y0 < 0 THEN 0 ELSE y0
        y       == IF y1 > y_max THEN y_max ELSE y1
        y_lower == y
        y_upper == y - y_mid
    IN  IF y < y_mid THEN b_lower + Mul(2 * m_lower, y_lower)
        ELSE b_upper + Mul(2 * m_upper, y_upper)

(***************************************************************************)
(* One link of the network: its geometry kind and parameters are fixed,    *)
(* the solver hands it a fresh pair of junction depths at every iteration  *)
(* and reads back A, Pe, R and B.                                          *)
(***************************************************************************)
VARIABLES kind, g, h_Ik, h_Ip1k, A_ik, Pe_ik, R_ik, B_ik, status

vars == <<kind, g, h_Ik, h_Ip1k, A_ik, Pe_ik, R_ik, B_ik, status>>

\* junction depths run from -1 to MaxDepth metres
MaxDepth == 3

Depths == {Lit(d) : d \in (0 - 1)..MaxDepth}

Heights == {ONE, 2 * ONE}

Widths == {0, ONE \div 2, ONE, 2 * ONE}

Slopes == {0, ONE \div 2, ONE, 2 * ONE}

\* Preissman slot ratios: none, 0.001, 0.125
Slots == {0, 1, ONE \div 8}

MidHeights == {ONE \div 2, ONE, 2 * ONE, 3 * ONE}

UpperWidths == {ONE \div 2, ONE, 2 * ONE, 3 * ONE, 4 * ONE}

\* the perimeter a caller hands Elliptical_R_ik (the source has no Elliptical_Pe_ik)
PerimeterInputs == {0 - ONE, 0, ONE, 3 * ONE}

ShapeKinds == (DOMAIN geom_code) \cup {"floodplain"}

Links ==
    {<<"circular", <<d, p, 0, 0, 0, 0>>>> : d \in Heights, p \in Slots}
    \cup {<<"force_main", <<d, p, 0, 0, 0, 0>>>> : d \in Heights, p \in Slots}
    \cup {<<"rect_closed", <<h, b, p, 0, 0, 0>>>> : h \in Heights, b \in Widths, p \in Slots}
    \cup {<<k, <<h, b, 0, 0, 0, 0>>>> :
              k \in {"rect_open", "parabolic", "elliptical", "wide"},
              h \in Heights, b \in Widths}
    \cup {<<"triangular", <<h, m, 0, 0, 0, 0>>>> : h \in Heights, m \in Slopes}
    \cup {<<"trapezoidal", <<h, b, m, 0, 0, 0>>>> : h \in Heights, b \in Widths, m \in Slopes}
    \cup {<<"floodplain", <<2 * ONE, ym, bl, bu, ml, mu>>>> :
              ym \in MidHeights, bl \in {0, ONE}, bu \in UpperWidths,
              ml \in {0, ONE}, mu \in {0, ONE}}
    \cup {<<"semicircular", <<ONE, ONE, 0, 0, 0, 0>>>>}

Init ==
    /\ \E l \in Links : kind = l[1] /\ g = l[2]
    /\ h_Ik = 0 /\ h_Ip1k = 0
    /\ A_ik = 0 /\ Pe_ik = 0 /\ R_ik = 0 /\ B_ik = 0
    /\ status = "idle"

\* the caller receives (A, Pe, R, B) for the depths (h1, h2)
Return(h1, h2, A, Pe, R, B) ==
    /\ status = "idle"
    /\ h_Ik' = h1 /\ h_Ip1k' = h2
    /\ A_ik' = A /\ Pe_ik' = Pe /\ R_ik' = R /\ B_ik' = B
    /\ status' = "done"
    /\ UNCHANGED <<kind, g>>

\* the caller receives an exception and no outputs
Raise(h1, h2, e) ==
    /\ status = "idle"
    /\ h_Ik' = h1 /\ h_Ip1k' = h2
    /\ status' = e
    /\ UNCHANGED <<kind, g, A_ik, Pe_ik, R_ik, B_ik>>

EvalCircular(h1, h2) ==
    /\ kind = "circular"
    /\ LET A  == Circular_A_ik(h1, h2, g[1])
           Pe == Circular_Pe_ik(h1, h2, g[1])
       IN  Return(h1, h2, A, Pe, Circular_R_ik(A, Pe), Circular_B_ik(h1, h2, g[1], g[2]))

EvalRectClosed(h1, h2) ==
    /\ kind = "rect_closed"
    /\ LET A  == Rect_Closed_A_ik(h1, h2, g[1], g[2])
           Pe == Rect_Closed_Pe_ik(h1, h2, g[1], g[2])
       IN  Return(h1, h2, A, Pe, Rect_Closed_R_ik(A, Pe),
                  Rect_Closed_B_ik(h1, h2, g[1], g[2], g[3]))

EvalRectOpen(h1, h2) ==
    /\ kind = "rect_open"
    /\ LET A  == Rect_Open_A_ik(h1, h2, g[1], g[2])
           Pe == Rect_Open_Pe_ik(h1, h2, g[1], g[2])
       IN  Return(h1, h2, A, Pe, Rect_Open_R_ik(A, Pe), Rect_Open_B_ik(h1, h2, g[1], g[2]))

EvalTriangular(h1, h2) ==
    /\ kind = "triangular"
    /\ LET A  == Triangular_A_ik(h1, h2, g[1], g[2])
           Pe == Triangular_Pe_ik(h1, h2, g[1], g[2])
       IN  Return(h1, h2, A, Pe, Triangular_R_ik(A, Pe), Triangular_B_ik(h1, h2, g[1], g[2]))

EvalTrapezoidal(h1, h2) ==
    /\ kind = "trapezoidal"
    /\ LET A  == Trapezoidal_A_ik(h1, h2, g[1], g[2], g[3])
           Pe == Trapezoidal_Pe_ik(h1, h2, g[1], g[2], g[3])
       IN  Return(h1, h2, A, Pe, Trapezoidal_R_ik(A, Pe),
                  Trapezoidal_B_ik(h1, h2, g[1], g[2], g[3]))

EvalParabolic(h1, h2) ==
    /\ kind = "parabolic"
    /\ IF Parabolic_Pe_raises(h1, h2, g[1], g[2])
       THEN Raise(h1, h2, "ZeroDivisionError")
       ELSE LET A  == Parabolic_A_ik(h1, h2, g[1], g[2])
                Pe == Parabolic_Pe_ik(h1, h2, g[1], g[2])
            IN  Return(h1, h2, A, Pe, Parabolic_R_ik(A, Pe),
                       Parabolic_B_ik(h1, h2, g[1], g[2]))

EvalElliptical(h1, h2) ==
    /\ kind = "elliptical"
    /\ \E Pe \in PerimeterInputs :
          LET A == Elliptical_A_ik(h1, h2, g[1], g[2])
          IN  Return(h1, h2, A, Pe, Elliptical_R_ik(A, Pe), Elliptical_B_ik(h1, h2, g[1], g[2]))

EvalWide(h1, h2) ==
    /\ kind = "wide"
    /\ LET A  == Wide_A_ik(h1, h2, g[1], g[2])
           Pe == Wide_Pe_ik(h1, h2, g[1], g[2])
       IN  Return(h1, h2, A, Pe, Wide_R_ik(A, Pe), Wide_B_ik(h1, h2, g[1], g[2]))

EvalForceMain(h1, h2) ==
    /\ kind = "force_main"
    /\ LET A  == Force_Main_A_ik(h1, h2, g[1], g[2])
           Pe == Force_Main_Pe_ik(h1, h2, g[1], g[2])
       IN  Return(h1, h2, A, Pe, Force_Main_R_ik(A, Pe), Force_Main_B_ik(h1, h2, g[1], g[2]))

EvalFloodplain(h1, h2) ==
    /\ kind = "floodplain"
    /\ LET A  == Floodplain_A_ik(h1, h2, g[1], g[2], g[3], g[4], g[5], g[6])
           Pe == Floodplain_Pe_ik(h1, h2, g[1], g[2], g[3], g[4], g[5], g[6])
       IN  Return(h1, h2, A, Pe, Floodplain_R_ik(A, Pe),
                  Floodplain_B_ik(h1, h2, g[1], g[2], g[3], g[4], g[5], g[6]))

\* a kind with no evaluator family: a configuration error, no outputs
EvalUnrecognized(h1, h2) ==
    /\ kind \notin ShapeKinds
    /\ Raise(h1, h2, "ConfigurationError")

\* the outputs are transient: nothing of a call outlives its use by the caller
Consume ==
    /\ status # "idle"
    /\ h_Ik' = 0 /\ h_Ip1k' = 0
    /\ A_ik' = 0 /\ Pe_ik' = 0 /\ R_ik' = 0 /\ B_ik' = 0
    /\ status' = "idle"
    /\ UNCHANGED <<kind, g>>

Evaluate(h1, h2) ==
        \/ EvalCircular(h1, h2)
        \/ EvalRectClosed(h1, h2)
        \/ EvalRectOpen(h1, h2)
        \/ EvalTriangular(h1, h2)
        \/ EvalTrapezoidal(h1, h2)
        \/ EvalParabolic(h1, h2)
        \/ EvalElliptical(h1, h2)
        \/ EvalWide(h1, h2)
        \/ EvalForceMain(h1, h2)
        \/ EvalFloodplain(h1, h2)
        \/ EvalUnrecognized(h1, h2)

Next ==
    \/ \E h1 \in Depths, h2 \in Depths : Evaluate(h1, h2)
    \/ Consume

Spec == Init /\ [][Next]_vars

(***************************************************************************)
(* The evaluator family of a kind, as a function of the kind.              *)
(***************************************************************************)
Area(k, h1, h2, gg) ==
    CASE k = "circular"    -> Circular_A_ik(h1, h2, gg[1])
      [] k = "rect_closed" -> Rect_Closed_A_ik(h1, h2, gg[1], gg[2])
      [] k = "rect_open"   -> Rect_Open_A_ik(h1, h2, gg[1], gg[2])
      [] k = "triangular"  -> Triangular_A_ik(h1, h2, gg[1], gg[2])
      [] k = "trapezoidal" -> Trapezoidal_A_ik(h1, h2, gg[1], gg[2], gg[3])
      [] k = "parabolic"   -> Parabolic_A_ik(h1, h2, gg[1], gg[2])
      [] k = "elliptical"  -> Elliptical_A_ik(h1, h2, gg[1], gg[2])
      [] k = "wide"        -> Wide_A_ik(h1, h2, gg[1], gg[2])
      [] k = "force_main"  -> Force_Main_A_ik(h1, h2, gg[1], gg[2])
      [] k = "floodplain"  ->
             Floodplain_A_ik(h1, h2, gg[1], gg[2], gg[3], gg[4], gg[5], gg[6])

\* every kind but elliptical, which has no perimeter function
Perimeter(k, h1, h2, gg) ==
    CASE k = "circular"    -> Circular_Pe_ik(h1, h2, gg[1])
      [] k = "rect_closed" -> Rect_Closed_Pe_ik(h1, h2, gg[1], gg[2])
      [] k = "rect_open"   -> Rect_Open_Pe_ik(h1, h2, gg[1], gg[2])
      [] k = "triangular"  -> Triangular_Pe_ik(h1, h2, gg[1], gg[2])
      [] k = "trapezoidal" -> Trapezoidal_Pe_ik(h1, h2, gg[1], gg[2], gg[3])
      [] k = "parabolic"   -> Parabolic_Pe_ik(h1, h2, gg[1], gg[2])
      [] k = "wide"        -> Wide_Pe_ik(h1, h2, gg[1], gg[2])
      [] k = "force_main"  -> Force_Main_Pe_ik(h1, h2, gg[1], gg[2])
      [] k = "floodplain"  ->
             Floodplain_Pe_ik(h1, h2, gg[1], gg[2], gg[3], gg[4], gg[5], gg[6])

TopWidth(k, h1, h2, gg) ==
    CASE k = "circular"    -> Circular_B_ik(h1, h2, gg[1], gg[2])
      [] k = "rect_closed" -> Rect_Closed_B_ik(h1, h2, gg[1], gg[2], gg[3])
      [] k = "rect_open"   -> Rect_Open_B_ik(h1, h2, gg[1], gg[2])
      [] k = "triangular"  -> Triangular_B_ik(h1, h2, gg[1], gg[2])
      [] k = "trapezoidal" -> Trapezoidal_B_ik(h1, h2, gg[1], gg[2], gg[3])
      [] k = "parabolic"   -> Parabolic_B_ik(h1, h2, gg[1], gg[2])
      [] k = "elliptical"  -> Elliptical_B_ik(h1, h2, gg[1], gg[2])
      [] k = "wide"        -> Wide_B_ik(h1, h2, gg[1], gg[2])
      [] k = "force_main"  -> Force_Main_B_ik(h1, h2, gg[1], gg[2])
      [] k = "floodplain"  ->
             Floodplain_B_ik(h1, h2, gg[1], gg[2], gg[3], gg[4], gg[5], gg[6])

(***************************************************************************)
(* Claims.  The depths of a state are grid values, so their sum is even    *)
(* and their mean is exact: the formulas below compare sums of depths and  *)
(* take the mean as an exact half.                                         *)
(***************************************************************************)
Done == status = "done"

DepthSum == h_Ik + h_Ip1k

\* the full height or diameter of the link
YMax == g[1]

\* clamp(mean(h_Ik, h_Ip1k), 0, y_max)
ClampedMean ==
    IF DepthSum < 0 THEN 0
    ELSE IF DepthSum > 2 * YMax THEN YMax
    ELSE DepthSum \div 2

\* the depth the perimeter formula is allowed to use: epsilon for 0 in Parabolic
ClampedMeanPe == IF kind = "parabolic" /\ ClampedMean = 0 THEN eps ELSE ClampedMean

\* C1: every Area, Perimeter and TopWidth is evaluated at the mean depth clamped
\* to [0, y_max] (Parabolic perimeter: epsilon for 0), so any two depth pairs
\* with means >= y_max give the same values.
C1_EvaluatedAtClampedMean ==
    Done =>
        /\ A_ik = Area(kind, ClampedMean, ClampedMean, g)
        /\ B_ik = TopWidth(kind, ClampedMean, ClampedMean, g)
        /\ kind # "elliptical" => Pe_ik = Perimeter(kind, ClampedMeanPe, ClampedMeanPe, g)
        /\ \A k1 \in Depths, k2 \in Depths :
              (DepthSum >= 2 * YMax /\ k1 + k2 >= 2 * YMax) =>
                  /\ A_ik = Area(kind, k1, k2, g)
                  /\ B_ik = TopWidth(kind, k1, k2, g)
                  /\ kind # "elliptical" => Pe_ik = Perimeter(kind, k1, k2, g)

\* C1 holds of every function but Parabolic_B_ik
C1_ExceptParabolicTopWidth ==
    Done =>
        /\ A_ik = Area(kind, ClampedMean, ClampedMean, g)
        /\ kind # "parabolic" => B_ik = TopWidth(kind, ClampedMean, ClampedMean, g)
        /\ kind # "elliptical" => Pe_ik = Perimeter(kind, ClampedMeanPe, ClampedMeanPe, g)

\* C2: with well-formed parameters every evaluation returns its four outputs
\* and each of A, Pe, R and B is >= 0, whatever the depths.
C2_OutputsNonNegative ==
    (kind \in ShapeKinds /\ status # "idle") =>
        /\ Done
        /\ A_ik >= 0
        /\ kind # "elliptical" => Pe_ik >= 0
        /\ R_ik >= 0
        /\ B_ik >= 0

\* C2 holds of every kind but elliptical and of every parabola of positive width
C2_ExceptEllipticalAndZeroWidthParabola ==
    (kind \in ShapeKinds \ {"elliptical"} /\ status # "idle"
       /\ ~(kind = "parabolic" /\ g[2] = 0)) =>
        /\ Done
        /\ A_ik >= 0 /\ Pe_ik >= 0 /\ R_ik >= 0 /\ B_ik >= 0

\* R = A / Pe if Pe > 0, else 0
RadiusRule(A, Pe) == IF Pe > 0 THEN Div(A, Pe) ELSE 0

\* C3: the hydraulic radius functions of the ten shapes all compute the rule
\* R = A / Pe when Pe > 0 and R = 0 when Pe <= 0, so they agree on every input
\* and the returned R is that of the rule.
C3_RadiusRuleShared ==
    Done =>
        /\ R_ik = RadiusRule(A_ik, Pe_ik)
        /\ Circular_R_ik(A_ik, Pe_ik) = RadiusRule(A_ik, Pe_ik)
        /\ Rect_Closed_R_ik(A_ik, Pe_ik) = RadiusRule(A_ik, Pe_ik)
        /\ Rect_Open_R_ik(A_ik, Pe_ik) = RadiusRule(A_ik, Pe_ik)
        /\ Triangular_R_ik(A_ik, Pe_ik) = RadiusRule(A_ik, Pe_ik)
        /\ Trapezoidal_R_ik(A_ik, Pe_ik) = RadiusRule(A_ik, Pe_ik)
        /\ Parabolic_R_ik(A_ik, Pe_ik) = RadiusRule(A_ik, Pe_ik)
        /\ Elliptical_R_ik(A_ik, Pe_ik) = RadiusRule(A_ik, Pe_ik)
        /\ Wide_R_ik(A_ik, Pe_ik) = RadiusRule(A_ik, Pe_ik)
        /\ Force_Main_R_ik(A_ik, Pe_ik) = RadiusRule(A_ik, Pe_ik)
        /\ Floodplain_R_ik(A_ik, Pe_ik) = RadiusRule(A_ik, Pe_ik)

\* a positive area over a negative perimeter was evaluated, and R is 0
C3_Witness == Done /\ A_ik > 0 /\ Pe_ik < 0 /\ R_ik = 0

\* C4: a kind that is not recognized yields a configuration error and never
\* four outputs; the recognized kinds have the stable, distinct codes 1..9.
C4_UnrecognizedKindIsError ==
    /\ kind \notin ShapeKinds =>
          /\ status \in {"idle", "ConfigurationError"}
          /\ A_ik = 0 /\ Pe_ik = 0 /\ R_ik = 0 /\ B_ik = 0
    /\ kind \in ShapeKinds => status # "ConfigurationError"
    /\ DOMAIN geom_code = {"circular", "rect_closed", "rect_open", "triangular",
                           "trapezoidal", "parabolic", "elliptical", "wide",
                           "force_main"}
    /\ geom_code["circular"] = 1 /\ geom_code["rect_closed"] = 2
    /\ geom_code["rect_open"] = 3 /\ geom_code["triangular"] = 4
    /\ geom_code["trapezoidal"] = 5 /\ geom_code["parabolic"] = 6
    /\ geom_code["elliptical"] = 7 /\ geom_code["wide"] = 8
    /\ geom_code["force_main"] = 9
    /\ \A k1 \in DOMAIN geom_code, k2 \in DOMAIN geom_code :
          geom_code[k1] = geom_code[k2] => k1 = k2

\* an evaluation of an unrecognized kind has ended in the error
C4_Witness == kind \notin ShapeKinds /\ status = "ConfigurationError"

\* the floodplain parameters of the link
YMid == g[2]

BLower == g[3]

BUpper == g[4]

MLower == g[5]

MUpper == g[6]

\* the top width of the lower channel at the transition depth
BMid == BLower + Mul(2 * MLower, YMid)

\* the perimeter of the lower channel filled to the transition depth
PeLowerFull == BLower + Mul(2 * YMid, Sqrt(ONE + Mul(MLower, MLower)))

\* a floodplain link evaluated at a mean depth of exactly y_mid, 0 < y_mid < y_max
AtTransition ==
    /\ Done /\ kind = "floodplain"
    /\ 0 < YMid /\ YMid < YMax
    /\ DepthSum = 2 * YMid

Min(a, b) == IF a < b THEN a ELSE b

Max(a, b) == IF a > b THEN a ELSE b

\* C7: floodplain area is A_lower(y_lower) + A_upper(y_upper), each trapezoidal,
\* with y_lower = min(y, y_mid), y_upper = max(y - y_mid, 0) and y the clamped
\* mean depth; at y = y_mid it is the lower-channel area alone, which is also
\* what the piece below y_mid gives there.
C7_AreaIsSumOfTrapezoids ==
    (Done /\ kind = "floodplain") =>
        LET y       == ClampedMean
            y_lower == Min(y, YMid)
            y_upper == Max(y - YMid, 0)
        IN  /\ A_ik = Mul(y_lower, BLower + Mul(MLower, y_lower))
                      + Mul(y_upper, BUpper + Mul(MUpper, y_upper))
            /\ y = YMid =>
                  /\ A_ik = Mul(YMid, BLower + Mul(MLower, YMid))
                  /\ A_ik = Trapezoidal_A_ik(h_Ik, h_Ip1k, YMid, BLower, MLower)

\* the area at the transition depth was evaluated, with a jump in width there
C7_Witness == AtTransition /\ BUpper # BMid /\ A_ik > 0

\* C8: every Area but ForceMain's is 0 when the mean depth is <= 0; ForceMain's
\* is pi * (d/2)^2 whatever the depths.
C8_AreaZeroWhenEmpty ==
    Done =>
        /\ (kind # "force_main" /\ DepthSum <= 0) => A_ik = 0
        /\ kind = "force_main" => A_ik = Mul(NpPi, Mul(Div(YMax, Lit(2)), Div(YMax, Lit(2))))

\* C8 holds of every kind but elliptical
C8_ExceptElliptical ==
    Done =>
        /\ (kind \notin {"force_main", "elliptical"} /\ DepthSum <= 0) => A_ik = 0
        /\ kind = "force_main" => A_ik = Mul(NpPi, Mul(Div(YMax, Lit(2)), Div(YMax, Lit(2))))

MonotoneKinds ==
    {"circular", "rect_closed", "rect_open", "triangular", "trapezoidal", "wide",
     "floodplain"}

\* C9: for Circular, RectClosed, RectOpen, Triangular, Trapezoidal, Wide and
\* Floodplain, with non-negative widths and slopes, a depth pair of larger or
\* equal mean never has a smaller area, clamped depths and the floodplain
\* transition included.
C9_AreaNonDecreasing ==
    (Done /\ kind \in MonotoneKinds) =>
        \A k1 \in Depths, k2 \in Depths :
            k1 + k2 >= DepthSum => Area(kind, k1, k2, g) >= A_ik

\* a floodplain below its transition depth, with deeper states above it
C9_Witness ==
    /\ Done /\ kind = "floodplain"
    /\ 0 < DepthSum /\ DepthSum < 2 * YMid /\ YMid < YMax
    /\ A_ik > 0
    /\ \E k1 \in Depths, k2 \in Depths :
          k1 + k2 > 2 * YMid /\ Area(kind, k1, k2, g) > A_ik

\* C10: RectClosed top width is b for every mean depth below y_max, negative
\* ones included, and slot_ratio * b for every mean depth >= y_max: it switches
\* exactly at y_max and takes no other value.
C10_RectClosedTopWidth ==
    (Done /\ kind = "rect_closed") =>
        /\ DepthSum < 2 * YMax => B_ik = g[2]
        /\ DepthSum >= 2 * YMax => B_ik = Mul(g[3], g[2])
        /\ B_ik \in {g[2], Mul(g[3], g[2])}

\* the slot width was returned at a mean depth of exactly y_max
C10_Witness ==
    /\ Done /\ kind = "rect_closed"
    /\ DepthSum = 2 * YMax
    /\ B_ik = Mul(g[3], g[2]) /\ B_ik # g[2]

\* a parabolic link evaluated above its full height returned a top width that
\* is not the one of the clamped depth
C1_Witness ==
    /\ Done /\ kind = "parabolic"
    /\ DepthSum > 2 * YMax
    /\ B_ik > TopWidth(kind, ClampedMean, ClampedMean, g)

\* an elliptical link of positive width returned a negative area
C2_Witness == Done /\ kind = "elliptical" /\ g[2] > 0 /\ A_ik < 0

\* an empty elliptical link returned an area that is not zero
C8_Witness == Done /\ kind = "elliptical" /\ DepthSum <= 0 /\ A_ik # 0

\* the shapes that define a perimeter: all but elliptical
PerimeterKinds == ShapeKinds \ {"elliptical"}

\* positive height or diameter, positive widths, non-negative slopes
WellFormed ==
    /\ g[1] > 0
    /\ kind \in {"rect_closed", "rect_open", "parabolic", "wide"} => g[2] > 0
    /\ kind = "triangular" => g[2] >= 0
    /\ kind = "trapezoidal" => (g[2] > 0 /\ g[3] >= 0)
    /\ kind = "floodplain" =>
          (YMid > 0 /\ BLower > 0 /\ BUpper > 0 /\ MLower >= 0 /\ MUpper >= 0)

C12_ParabolicNoDivisionByZero ==
    (status # "idle" /\ kind = "parabolic" /\ g[1] > 0 /\ g[2] > 0) =>
        LET y == Parabolic_Pe_y(h_Ik, h_Ip1k, g[1])
        IN  /\ Done
            /\ ~Parabolic_Pe_raises(h_Ik, h_Ip1k, g[1], g[2])
            /\ y > 0
            /\ Div(4 * y, g[2]) > 0
            /\ Pe_ik > 0
            /\ DepthSum <= 0 =>
                  /\ y = eps
                  /\ Pe_ik = Parabolic_Pe_ik(eps, eps, g[1], g[2])
                  /\ A_ik = 0 /\ A_ik = Parabolic_A_ik(0, 0, g[1], g[2])
                  /\ B_ik = 0 /\ B_ik = Parabolic_B_ik(0, 0, g[1], g[2])

\* a parabola of positive width was evaluated at a mean depth of exactly 0 and
\* returned a positive perimeter with zero area and top width
C12_Witness ==
    /\ Done /\ kind = "parabolic" /\ g[2] > 0
    /\ DepthSum = 0
    /\ Pe_ik > 0 /\ A_ik = 0 /\ B_ik = 0

\* C13: every Area, Perimeter and TopWidth function depends on its two depths
\* only through their mean and is symmetric in them: any depth pair with the sum
\* of the evaluated pair, the swapped pair among them, gives the values returned.
C13_DependsOnMeanOnly ==
    Done =>
        /\ A_ik = Area(kind, h_Ip1k, h_Ik, g)
        /\ B_ik = TopWidth(kind, h_Ip1k, h_Ik, g)
        /\ kind # "elliptical" => Pe_ik = Perimeter(kind, h_Ip1k, h_Ik, g)
        /\ \A k1 \in Depths, k2 \in Depths :
              k1 + k2 = DepthSum =>
                  /\ A_ik = Area(kind, k1, k2, g)
                  /\ B_ik = TopWidth(kind, k1, k2, g)
                  /\ kind # "elliptical" => Pe_ik = Perimeter(kind, k1, k2, g)

\* unequal depths were evaluated, a third pair of depths has their sum, and the
\* link is partly full
C13_Witness ==
    /\ Done /\ h_Ik # h_Ip1k
    /\ A_ik > 0 /\ B_ik > 0
    /\ \E k1 \in Depths, k2 \in Depths :
          k1 + k2 = DepthSum /\ k1 # h_Ik /\ k1 # h_Ip1k

\* a floodplain link with y_mid <= y_max evaluated at a mean depth below y_mid
BelowTransition ==
    /\ Done /\ kind = "floodplain"
    /\ YMid <= YMax
    /\ DepthSum < 2 * YMid

\* C14: at every mean depth below y_mid, with y_mid <= y_max, Floodplain area,
\* perimeter and top width are those of the trapezoid of height y_mid, width
\* b_lower and slope m_lower, whatever b_upper and m_upper are.
C14_LowerTrapezoidBelowTransition ==
    BelowTransition =>
        /\ A_ik = Trapezoidal_A_ik(h_Ik, h_Ip1k, YMid, BLower, MLower)
        /\ Pe_ik = Trapezoidal_Pe_ik(h_Ik, h_Ip1k, YMid, BLower, MLower)
        /\ B_ik = Trapezoidal_B_ik(h_Ik, h_Ip1k, YMid, BLower, MLower)
        /\ \A bu \in UpperWidths, mu \in Slopes :
              /\ A_ik = Floodplain_A_ik(h_Ik, h_Ip1k, YMax, YMid, BLower, bu, MLower, mu)
              /\ Pe_ik = Floodplain_Pe_ik(h_Ik, h_Ip1k, YMax, YMid, BLower, bu, MLower, mu)
              /\ B_ik = Floodplain_B_ik(h_Ik, h_Ip1k, YMax, YMid, BLower, bu, MLower, mu)

\* a partly filled lower channel was evaluated under an upper section of
\* another width and a sloping side
C14_Witness ==
    /\ BelowTransition
    /\ DepthSum > 0 /\ A_ik > 0
    /\ BUpper # BMid /\ MLower > 0 /\ MUpper > 0

=============================================================================
